---- MODULE Spec2Model ----
(***************************************************************************)
(* kubefs: a Kubernetes cluster exposed as a read-only FUSE file system.   *)
(*                                                                         *)
(*   tree.rs    Arena<T>: nodes by NodeId, add / get / get_children /      *)
(*              tree_walk_dfs / delete_node                                *)
(*   vfs.rs     KubeVirtualFs: KubeFileNode, its semantic equality, the    *)
(*              desired children of a node (get_leafs_for_node) and the    *)
(*              reconciliation (sync_leafs_for_inode)                      *)
(*   client.rs  KubeClient: list_namespaces / list_resources with a cache  *)
(*   fuse.rs    KubeFuse: lookup, getattr, read, opendir, readdir          *)
(*                                                                         *)
(* Three specifications share the variables:                               *)
(*   ArenaSpec      an Arena<KubeFileNode> under any add / delete_node     *)
(*   ReconcileSpec  KubeVirtualFs::sync_leafs_for_inode over listings that *)
(*                  the provider returns fresh on every call               *)
(*   Spec           the mounted file system: the FUSE callbacks of         *)
(*                  KubeFuse over KubeVirtualFs and the caching KubeClient *)
(***************************************************************************)
EXTENDS Integers, Sequences, FiniteSets, TLC

\* ------------------------------------------------------------------ bounds
\* ArenaSpec stops adding once the counter has passed MaxArenaId.
MaxArenaId == 3

\* ------------------------------------------------------------ Option<T>
\* Option<NodeId>: NodeId wraps a NonZeroU64, so 0 is free to stand for None.
NoId == 0

NoneV == [some |-> FALSE, val |-> <<>>]

SomeV(v) == [some |-> TRUE, val |-> v]

\* ------------------------------------------------------------ sequences
Range(s) == {s[i] : i \in 1..Len(s)}

NoDup(s) == \A i, j \in 1..Len(s) : i # j => s[i] # s[j]

RECURSIVE Filter(_, _)
\* The elements of s that Test (a set) contains, in the order of s.
Filter(s, keep) ==
    IF s = <<>> THEN <<>>
    ELSE IF Head(s) \in keep THEN <<Head(s)>> \o Filter(Tail(s), keep)
         ELSE Filter(Tail(s), keep)

RECURSIVE Reverse(_)
Reverse(s) == IF s = <<>> THEN <<>> ELSE Reverse(Tail(s)) \o <<Head(s)>>

\* ------------------------------------------------------------ KubeFileNode
Virtual(name) == [tag |-> "Virtual", name |-> name]

Context(name) == [tag |-> "Context", name |-> name]

ClusterInfoFile == [tag |-> "ClusterInfoFile"]

ApiResourceDirectory(namespace, group, version, kind, plural) ==
    [tag |-> "ApiResourceDirectory", namespace |-> namespace, group |-> group,
     version |-> version, kind |-> kind, plural |-> plural]

\* KubeResourceNode {namespace, uuid, name, kind} under one of three variants.
ResourceDirectory(namespace, uuid, name, kind) ==
    [tag |-> "ResourceDirectory", namespace |-> namespace, uuid |-> uuid,
     name |-> name, kind |-> kind]

ResourceFile(namespace, uuid, name, kind) ==
    [tag |-> "ResourceFile", namespace |-> namespace, uuid |-> uuid,
     name |-> name, kind |-> kind]

LogFile(namespace, uuid, name, kind) ==
    [tag |-> "LogFile", namespace |-> namespace, uuid |-> uuid,
     name |-> name, kind |-> kind]

VARIABLES
    map,        \* Arena.map: NodeId -> Node {parent_id, children_ids, payload}
    counter,    \* Arena.counter: the next id generate_id hands out
    status,     \* "running", or how the process stopped: "panicked", "looping"
    cache,      \* KubeClient.cache: key -> the listing fetched under it
    last,       \* the last operation: its name, arguments and result
    issued,     \* history: every NodeId add has returned so far
    synced,     \* history: directory id -> the desired children of its last sync
    session     \* requester -> where its callback stands in the dispatch loop

vars == <<map, counter, status, cache, last, issued, synced, session>>

\* The requesters whose requests can be pending in the kernel at once.
Slots == {"t1", "t2"}

\* A requester with no request pending.
Idle == [pc |-> "none"]

\* ------------------------------------------------------------------ Arena
\* Arena::new
ArenaNew == [map |-> <<>>, counter |-> 1]

\* generate_id reading the counter without advancing it.
generate_id_no_advance(c) == [id |-> c, counter |-> c]

\* Arena::generate_id: fetch_add(1) returns the old value.
generate_id(c) == [id |-> c, counter |-> c + 1]

contains(m, node_id) == node_id \in DOMAIN m

\* Arena::get, as an Option of the node.
get(m, node_id) == IF node_id \in DOMAIN m THEN SomeV(m[node_id]) ELSE NoneV

\* self.map.insert(id, node)
map_insert(m, id, node) ==
    [k \in DOMAIN m \cup {id} |-> IF k = id THEN node ELSE m[k]]

\* if let Some(parent_id) = parent_id { if let Some(node) = map.get_mut(..) {
\* node.children_ids.push_back(id) } }, on the map that holds the new node.
link_to_parent(m, id, parent_id) ==
    IF parent_id # NoId /\ parent_id \in DOMAIN m
    THEN [m EXCEPT ![parent_id].children_ids = Append(@, id)]
    ELSE m

\* The body of add once the id is generated.
add_with_id(m, g, payload, parent_id) ==
    [map |-> link_to_parent(
                 map_insert(m, g.id, [id |-> g.id, parent_id |-> parent_id,
                                      children_ids |-> <<>>, payload |-> payload]),
                 g.id, parent_id),
     counter |-> g.counter, id |-> g.id]

\* Arena::add: the node is inserted with the parent_id it was given, and is
\* appended to the parent's children only when the parent is in the map.
add(m, c, payload, parent_id) == add_with_id(m, generate_id(c), payload, parent_id)

\* Arena::get_children: None when the parent is absent, else the ids of the
\* children that resolve, in children_ids order.
get_children(m, parent) ==
    IF ~contains(m, parent) THEN NoneV
    ELSE SomeV(Filter(m[parent].children_ids, DOMAIN m))

\* The outcomes of a walk: None, Some(it), or a loop that never ends.
WalkNone == [some |-> FALSE, val |-> <<>>, loops |-> FALSE]

WalkSome(it) == [some |-> TRUE, val |-> it, loops |-> FALSE]

WalkLoops == [some |-> FALSE, val |-> <<>>, loops |-> TRUE]

RECURSIVE dfs_loop(_, _, _)
\* The while-let loop of tree_walk_dfs: pop the back of the stack, append the
\* node to `it`, push its children reversed. `?` on a missing node returns
\* None from the whole walk. A walk that has appended more ids than the map
\* holds has met a node twice, and from there repeats itself without end.
dfs_loop(m, stack, it) ==
    IF stack = <<>> THEN WalkSome(it)
    ELSE IF Len(it) > Cardinality(DOMAIN m) THEN WalkLoops
    ELSE LET node_id == stack[Len(stack)]
             rest == SubSeq(stack, 1, Len(stack) - 1)
         IN  IF node_id \notin DOMAIN m THEN WalkNone
             ELSE dfs_loop(m, rest \o Reverse(m[node_id].children_ids),
                           Append(it, m[node_id].id))

\* match it.len() { 0 => None, _ => Some(it) }
walk_result(r) == IF r.some /\ Len(r.val) = 0 THEN WalkNone ELSE r

\* Arena::tree_walk_dfs
tree_walk_dfs(m, node_id) ==
    IF ~contains(m, node_id) THEN WalkNone
    ELSE walk_result(dfs_loop(m, <<node_id>>, <<>>))

\* remove_node_id_from_parent leaving the parent's children as they are.
remove_node_id_from_parent_skipped(m, parent_id, node_id) == m

\* The closure remove_node_id_from_parent of delete_node.
remove_node_id_from_parent(m, parent_id, node_id) ==
    IF parent_id \in DOMAIN m
    THEN [m EXCEPT ![parent_id].children_ids =
                       Filter(@, Range(@) \ {node_id})]
    ELSE m

\* for node_id in &deletion_list { self.map.remove(node_id) }
remove_all(m, gone) == [k \in DOMAIN m \ gone |-> m[k]]

\* if let Some(id) = parent_id { remove_node_id_from_parent(id) }
detach(m, node_id, parent_id) ==
    IF parent_id # NoId THEN remove_node_id_from_parent(m, parent_id, node_id)
    ELSE m

\* delete_node removing the node alone and leaving its descendants behind.
delete_listed_shallow(m, node_id, deletion_list) ==
    IF deletion_list.loops THEN [map |-> m, ret |-> NoneV, loops |-> TRUE]
    ELSE IF ~deletion_list.some THEN [map |-> m, ret |-> NoneV, loops |-> FALSE]
    ELSE [map |-> remove_all(detach(m, node_id, m[node_id].parent_id), {node_id}),
          ret |-> SomeV(<<node_id>>), loops |-> FALSE]

\* delete_node once the walk is made: `?` returns None when the walk did.
delete_listed(m, node_id, deletion_list) ==
    IF deletion_list.loops THEN [map |-> m, ret |-> NoneV, loops |-> TRUE]
    ELSE IF ~deletion_list.some THEN [map |-> m, ret |-> NoneV, loops |-> FALSE]
    ELSE [map |-> remove_all(detach(m, node_id, m[node_id].parent_id),
                             Range(deletion_list.val)),
          ret |-> SomeV(deletion_list.val), loops |-> FALSE]

\* delete_node deleting the subtree of the parent of the node it is given.
delete_node_of_parent(m, node_id) ==
    IF node_id \notin DOMAIN m THEN [map |-> m, ret |-> NoneV, loops |-> FALSE]
    ELSE delete_listed(m, m[node_id].parent_id,
                       tree_walk_dfs(m, m[node_id].parent_id))

\* Arena::delete_node: the map afterwards and the returned deletion list;
\* loops when the walk it starts never returns.
delete_node(m, node_id) ==
    IF node_id \notin DOMAIN m THEN [map |-> m, ret |-> NoneV, loops |-> FALSE]
    ELSE delete_listed(m, node_id, tree_walk_dfs(m, node_id))

\* ------------------------------------------------------------ ArenaSpec
\* The payloads and parent ids the arena is driven with: a parent may be
\* None, any id handed out so far, or an id not handed out yet.
ArenaPayloads == {Virtual("."), ResourceFile("", "u1", "a", "Pod")}

ArenaIds == 1..(MaxArenaId + 1)

\* `last` of an arena call: arg is the id added or the id to delete, parent
\* the parent_id given to add or held by the deleted node, present whether the
\* id to delete was in the map.
NoOp == [op |-> "none", arg |-> NoId, parent |-> NoId, payload |-> ClusterInfoFile,
         present |-> FALSE, ret |-> NoneV]

ArenaInit ==
    /\ map = ArenaNew.map
    /\ counter = ArenaNew.counter
    /\ status = "running"
    /\ cache = <<>>
    /\ last = NoOp
    /\ issued = {}
    /\ synced = <<>>
    /\ session = [s \in Slots |-> Idle]

ArenaAdd(payload, parent_id) ==
    /\ status = "running"
    /\ counter <= MaxArenaId
    /\ \E r \in {add(map, counter, payload, parent_id)} :
           /\ map' = r.map
           /\ counter' = r.counter
           /\ last' = [op |-> "add", arg |-> r.id, parent |-> parent_id,
                       payload |-> payload, present |-> FALSE,
                       ret |-> SomeV(<<r.id>>)]
           /\ issued' = issued \cup {r.id}
    /\ UNCHANGED <<status, cache, synced, session>>

ArenaDelete(node_id) ==
    /\ status = "running"
    /\ \E r \in {delete_node(map, node_id)} :
           /\ map' = r.map
           /\ status' = IF r.loops THEN "looping" ELSE "running"
           /\ last' = [op |-> "delete_node", arg |-> node_id,
                       parent |-> IF node_id \in DOMAIN map
                                  THEN map[node_id].parent_id ELSE NoId,
                       payload |-> ClusterInfoFile,
                       present |-> node_id \in DOMAIN map, ret |-> r.ret]
    /\ UNCHANGED <<counter, cache, issued, synced, session>>

ArenaNext ==
    \/ \E payload \in ArenaPayloads, parent_id \in {NoId} \cup ArenaIds :
           ArenaAdd(payload, parent_id)
    \/ \E node_id \in ArenaIds : ArenaDelete(node_id)

ArenaSpec == ArenaInit /\ [][ArenaNext]_vars

\* ------------------------------------------------------------ KubeClient
\* What the API server answers to one list request: Ok(items) or an error.
FetchOk(items) == [ok |-> TRUE, items |-> items]

FetchErr == [ok |-> FALSE, items |-> <<>>]

\* str::to_lowercase on the kinds of ApiResources.
to_lowercase(kind) ==
    CASE kind = "Pod" -> "pod"
      [] kind = "Node" -> "node"
      [] OTHER -> kind

\* Cache::insert
cache_insert(cch, key, items) ==
    [k \in DOMAIN cch \cup {key} |-> IF k = key THEN items ELSE cch[k]]

\* KubeClient::list_namespaces: the cached listing when there is one, else
\* the server's answer, cached when it is Ok.
list_namespaces(cch, fetch) ==
    LET key == <<"namespaces">>
    IN  IF key \in DOMAIN cch
        THEN [ok |-> TRUE, items |-> cch[key], cache |-> cch]
        ELSE IF ~fetch.ok
        THEN [ok |-> FALSE, items |-> <<>>, cache |-> cch]
        ELSE [ok |-> TRUE, items |-> fetch.items,
              cache |-> cache_insert(cch, key, fetch.items)]

\* KubeClient::list_resources: keyed by "{namespace}/{kind lowercased}".
list_resources(cch, namespace, resource, fetch) ==
    LET key == <<namespace, "/", to_lowercase(resource.kind)>>
    IN  IF key \in DOMAIN cch
        THEN [ok |-> TRUE, items |-> cch[key], cache |-> cch]
        ELSE IF ~fetch.ok
        THEN [ok |-> FALSE, items |-> <<>>, cache |-> cch]
        ELSE [ok |-> TRUE, items |-> fetch.items,
              cache |-> cache_insert(cch, key, fetch.items)]

\* --------------------------------------------------------- KubeVirtualFs
\* KubeVirtualFs.api_resources, as discover_api_resources returned it at
\* startup: one namespaced kind and one cluster-scoped kind.
api_resources ==
    << [group |-> "", version |-> "v1", kind |-> "Pod", plural |-> "pods",
        scope |-> "Namespaced"],
       [group |-> "", version |-> "v1", kind |-> "Node", plural |-> "nodes",
        scope |-> "Cluster"] >>

\* KubeApiResourceNode::name
api_name(api) == IF api.plural # "" THEN api.plural ELSE api.kind

\* KubeFileNode::get_file_name; format!("{}.yml", name) kept as the pair.
get_file_name(f) ==
    CASE f.tag \in {"Context", "Virtual"} -> <<f.name>>
      [] f.tag = "ClusterInfoFile" -> <<"cluster_info">>
      [] f.tag = "ApiResourceDirectory" -> <<api_name(f)>>
      [] f.tag = "ResourceDirectory" -> <<f.name>>
      [] f.tag = "ResourceFile" -> <<f.name, ".yml">>
      [] f.tag = "LogFile" -> <<"logs">>

\* eq comparing every field of the two payloads.
eq_structural(this, other) == this = other

\* impl PartialEq for KubeFileNode
eq(this, other) ==
    CASE this.tag = "Virtual" ->
             other.tag = "Virtual" /\ this.name = other.name
      [] this.tag = "Context" ->
             other.tag = "Context" /\ this.name = other.name
      [] this.tag = "ClusterInfoFile" -> other.tag = "ClusterInfoFile"
      [] this.tag = "ApiResourceDirectory" ->
             /\ other.tag = "ApiResourceDirectory"
             /\ this.kind = other.kind
             /\ this.group = other.group
             /\ this.version = other.version
      [] this.tag = "ResourceDirectory" ->
             other.tag = "ResourceDirectory" /\ this.uuid = other.uuid
      [] this.tag = "ResourceFile" ->
             other.tag = "ResourceFile" /\ this.uuid = other.uuid
      [] this.tag = "LogFile" ->
             other.tag = "LogFile" /\ this.uuid = other.uuid

\* KubeResourceNode::new(uuid, name, kind): namespace is None.
KubeResourceNode_new(uuid, name, kind) ==
    [namespace |-> "", uuid |-> uuid, name |-> name, kind |-> kind]

RECURSIVE namespace_items(_)
\* The loop over the namespaces: a directory and a manifest file for each.
namespace_items(namespaces) ==
    IF namespaces = <<>> THEN <<>>
    ELSE LET n == KubeResourceNode_new(Head(namespaces).uid,
                                       Head(namespaces).name, "Namespace")
         IN  << ResourceDirectory(n.namespace, n.uuid, n.name, n.kind),
                ResourceFile(n.namespace, n.uuid, n.name, n.kind) >>
             \o namespace_items(Tail(namespaces))

RECURSIVE scoped_items(_, _)
\* One ApiResourceDirectory per api resource whose scope is Namespaced.
scoped_items(apis, dir) ==
    IF apis = <<>> THEN <<>>
    ELSE (IF Head(apis).scope = "Namespaced"
          THEN << ApiResourceDirectory(dir.name, Head(apis).group,
                                       Head(apis).version, Head(apis).kind,
                                       Head(apis).plural) >>
          ELSE <<>>)
         \o scoped_items(Tail(apis), dir)

RECURSIVE object_items(_, _)
\* KubeResourceNode::from(obj, kind) under ResourceFile, for each object.
object_items(objs, kind) ==
    IF objs = <<>> THEN <<>>
    ELSE << ResourceFile(Head(objs).namespace, Head(objs).uid,
                         Head(objs).name, kind) >>
         \o object_items(Tail(objs), kind)

\* api_resources.iter().find(group, kind and version equal): the first match.
find_api(api) ==
    LET hits == {i \in 1..Len(api_resources) :
                    /\ api_resources[i].group = api.group
                    /\ api_resources[i].kind = api.kind
                    /\ api_resources[i].version = api.version}
    IN  IF hits = {} THEN NoneV
        ELSE SomeV(api_resources[CHOOSE i \in hits : \A j \in hits : i <= j])

Dots == << Virtual("."), Virtual("..") >>

\* What get_leafs_for_node comes to: the desired children and the cache after
\* the provider call, or a panic, of a failed provider call or another unwrap.
Leafs(items, cch) ==
    [panicked |-> FALSE, provider_failed |-> FALSE, items |-> items, cache |-> cch]

LeafsPanic(provider_failed, cch) ==
    [panicked |-> TRUE, provider_failed |-> provider_failed, items |-> <<>>,
     cache |-> cch]

\* The Context arm, given list_namespaces()'s result: unwrap() panics on Err.
context_leafs(r) ==
    IF ~r.ok THEN LeafsPanic(TRUE, r.cache)
    ELSE Leafs(Dots \o <<ClusterInfoFile>> \o namespace_items(r.items), r.cache)

\* The ApiResourceDirectory arm, given list_resources()'s result.
objects_leafs(r, kind) ==
    IF ~r.ok THEN LeafsPanic(TRUE, r.cache)
    ELSE Leafs(Dots \o object_items(r.items, kind), r.cache)

\* The ApiResourceDirectory arm, given what find() found.
api_leafs(f, cch, resource, obj_fetch) ==
    IF ~resource.some THEN LeafsPanic(FALSE, cch)
    ELSE objects_leafs(list_resources(cch, f.namespace, resource.val, obj_fetch),
                       f.kind)

\* KubeVirtualFs::get_leafs_for_node: the desired children of a node.
get_leafs_for_node(node, cch, ns_fetch, obj_fetch) ==
    CASE node.payload.tag = "Context" ->
             context_leafs(list_namespaces(cch, ns_fetch))
      [] node.payload.tag = "ResourceDirectory" ->
             Leafs(Dots \o (IF node.payload.kind = "Namespace"
                            THEN scoped_items(api_resources, node.payload)
                            ELSE <<>>),
                   cch)
      [] node.payload.tag = "ApiResourceDirectory" ->
             api_leafs(node.payload, cch, find_api(node.payload), obj_fetch)
      [] OTHER -> Leafs(<<>>, cch)

RECURSIVE select_new(_, _, _)
\* add_nodes: the entries of new_leaf that eq no payload of old_leaf.
select_new(new_leaf, old_ids, m) ==
    IF new_leaf = <<>> THEN <<>>
    ELSE (IF \E i \in 1..Len(old_ids) : eq(m[old_ids[i]].payload, Head(new_leaf))
          THEN <<>> ELSE <<Head(new_leaf)>>)
         \o select_new(Tail(new_leaf), old_ids, m)

RECURSIVE select_old(_, _, _)
\* remove_inodes: the ids of old_leaf whose payload no entry of new_leaf eqs.
select_old(old_ids, new_leaf, m) ==
    IF old_ids = <<>> THEN <<>>
    ELSE (IF \E i \in 1..Len(new_leaf) : eq(new_leaf[i], m[Head(old_ids)].payload)
          THEN <<>> ELSE <<Head(old_ids)>>)
         \o select_old(Tail(old_ids), new_leaf, m)

RECURSIVE delete_all(_, _), delete_rest(_, _)
\* for inode in remove_inodes { arena.delete_node(inode) }; a delete that
\* never returns stops the loop.
delete_all(m, ids) ==
    IF ids = <<>> THEN [map |-> m, loops |-> FALSE]
    ELSE delete_rest(delete_node(m, Head(ids)), Tail(ids))

delete_rest(r, ids) ==
    IF r.loops THEN [map |-> r.map, loops |-> TRUE] ELSE delete_all(r.map, ids)

RECURSIVE add_all(_, _, _, _), add_rest(_, _, _)
\* for node in add_nodes { arena.add(node, Some(id)) }
add_all(m, c, nodes, id) ==
    IF nodes = <<>> THEN [map |-> m, counter |-> c]
    ELSE add_rest(add(m, c, Head(nodes), id), Tail(nodes), id)

\* The rest of the add loop hanging each node under the one added before it.
add_rest_nested(r, nodes, id) == add_all(r.map, r.counter, nodes, r.id)

add_rest(r, nodes, id) == add_all(r.map, r.counter, nodes, id)

\* add_nodes taken to be the whole of new_leaf.
add_nodes_unfiltered(new_leaf, old_ids, m) == new_leaf

\* The add_nodes of sync_leafs_for_inode.
add_nodes_of(new_leaf, old_ids, m) == select_new(new_leaf, old_ids, m)

\* remove_inodes taken to be empty.
remove_inodes_none(old_ids, new_leaf, m) == <<>>

\* The remove_inodes of sync_leafs_for_inode.
remove_inodes_of(old_ids, new_leaf, m) == select_old(old_ids, new_leaf, m)

\* What sync_leafs_for_inode leaves: the arena, the cache, whether the node
\* was found, its desired children, and how the call ended.
SyncResult(m, c, cch, found, new_leaf, st, provider_failed) ==
    [map |-> m, counter |-> c, cache |-> cch, found |-> found,
     new_leaf |-> new_leaf, status |-> st, provider_failed |-> provider_failed]

\* The two loops at the end of sync_leafs_for_inode, given what the first left.
sync_added(leafs, a) ==
    SyncResult(a.map, a.counter, leafs.cache, TRUE, leafs.items, "running", FALSE)

sync_apply(c, inode, leafs, d, add_nodes) ==
    IF d.loops
    THEN SyncResult(d.map, c, leafs.cache, TRUE, leafs.items, "looping", FALSE)
    ELSE sync_added(leafs, add_all(d.map, c, add_nodes, inode))

\* get_children(&id).unwrap_or_default(), as ids.
old_leaf(kids) == IF kids.some THEN kids.val ELSE <<>>

\* sync_leafs_for_inode from old_leaf on: both add_nodes and remove_inodes are
\* computed on the arena as it is before either loop runs.
sync_diff(m, c, inode, leafs, old_ids) ==
    sync_apply(c, inode, leafs,
               delete_all(m, remove_inodes_of(old_ids, leafs.items, m)),
               add_nodes_of(leafs.items, old_ids, m))

\* sync_leafs_for_inode once get_leafs_for_node has returned or panicked.
sync_with_leafs(m, c, inode, leafs) ==
    IF leafs.panicked
    THEN SyncResult(m, c, leafs.cache, TRUE, <<>>, "panicked", leafs.provider_failed)
    ELSE sync_diff(m, c, inode, leafs, old_leaf(get_children(m, inode)))

\* KubeVirtualFs::sync_leafs_for_inode. NodeId::new(0) panics; an absent
\* node returns at once; a failed provider call panics in get_leafs_for_node
\* before anything is changed.
sync_leafs_for_inode(m, c, cch, inode, ns_fetch, obj_fetch) ==
    IF inode = 0 THEN SyncResult(m, c, cch, FALSE, <<>>, "panicked", FALSE)
    ELSE IF ~get(m, inode).some
    THEN SyncResult(m, c, cch, FALSE, <<>>, "running", FALSE)
    ELSE sync_with_leafs(m, c, inode,
                         get_leafs_for_node(m[inode], cch, ns_fetch, obj_fetch))

\* KubeVirtualFs::new: the arena holds the Context root, which gets id 1.
VfsNew == add(ArenaNew.map, ArenaNew.counter, Context("default"), NoId)

\* -------------------------------------------------------- ReconcileSpec
\* ids and listings the reconciliation is driven with.
MaxIno == 15

\* The namespaces and pods the provider may list. nA2 is nA renamed: the
\* same uid under another name.
nA == [uid |-> "u1", name |-> "a"]
nA2 == [uid |-> "u1", name |-> "b"]
nB == [uid |-> "u2", name |-> "b"]

nC == [uid |-> "u3", name |-> "c"]

NsListings == { <<>>, <<nA>>, <<nA2, nB>>, <<nB, nC>> }

\* A pod object of namespace `namespace`, and the pod listings of a namespace:
\* the second keeps pB (renamed) and pC, drops pA and brings pD.
Pod(uid, name, namespace) == [uid |-> uid, name |-> name, namespace |-> namespace]

PodListings(namespace) ==
    { <<>>,
      <<Pod("p1", "x", namespace), Pod("p2", "y", namespace),
        Pod("p3", "z", namespace)>>,
      <<Pod("p2", "w", namespace), Pod("p3", "z", namespace),
        Pod("p4", "x", namespace)>> }

VfsInit ==
    /\ map = VfsNew.map
    /\ counter = VfsNew.counter
    /\ status = "running"
    /\ cache = <<>>
    /\ last = [op |-> "none"]
    /\ issued = {1}
    /\ synced = <<>>
    /\ session = [s \in Slots |-> Idle]

\* The history of desired children, kept for the directories still there: a
\* node whose desired children are empty is a leaf and is left out.
synced_after(m, inode, found, new_leaf) ==
    [k \in (DOMAIN synced \cup (IF found /\ new_leaf # <<>> THEN {inode} ELSE {}))
            \cap DOMAIN m |->
        IF k = inode /\ found /\ new_leaf # <<>> THEN new_leaf ELSE synced[k]]

\* One call of sync_leafs_for_inode whose provider call is served fresh. `last`
\* notes whether the desired children are those of the directory's previous
\* sync, the children dropped, and the ids removed from and added to the arena.
Reconcile(inode, ns_fetch, obj_fetch) ==
    /\ status = "running"
    /\ \E r \in {sync_leafs_for_inode(map, counter, <<>>, inode, ns_fetch, obj_fetch)} :
           /\ r.counter <= MaxIno + 1
           /\ map' = r.map
           /\ counter' = r.counter
           /\ status' = r.status
           /\ last' = [op |-> "sync", arg |-> inode, found |-> r.found,
                       repeated |-> /\ inode \in DOMAIN synced
                                    /\ synced[inode] = r.new_leaf,
                       dropped |-> IF inode \in DOMAIN map
                                   THEN Range(map[inode].children_ids) \ DOMAIN r.map
                                   ELSE {},
                       removed |-> DOMAIN map \ DOMAIN r.map,
                       added |-> DOMAIN r.map \ DOMAIN map]
           /\ issued' = issued \cup (counter..(r.counter - 1))
           /\ synced' = synced_after(r.map, inode,
                                     r.found /\ r.status = "running", r.new_leaf)
    /\ UNCHANGED <<cache, session>>

\* The provider answers a call on `inode` can meet: list_namespaces is called
\* for the Context node, list_resources for an ApiResourceDirectory, and no
\* provider call is made for any other node. `failing` adds the error answer.
AnswersFor(inode, failing) ==
    IF inode \notin DOMAIN map THEN {[ns |-> FetchErr, obj |-> FetchErr]}
    ELSE CASE map[inode].payload.tag = "Context" ->
                  {[ns |-> a, obj |-> FetchErr] :
                      a \in {FetchOk(l) : l \in NsListings}
                            \cup (IF failing THEN {FetchErr} ELSE {})}
           [] map[inode].payload.tag = "ApiResourceDirectory" ->
                  {[ns |-> FetchErr, obj |-> a] :
                      a \in {FetchOk(l) :
                                l \in PodListings(map[inode].payload.namespace)}
                            \cup (IF failing THEN {FetchErr} ELSE {})}
           [] OTHER -> {[ns |-> FetchErr, obj |-> FetchErr]}

ReconcileNext ==
    \E inode \in 0..MaxIno :
        \E f \in AnswersFor(inode, FALSE) : Reconcile(inode, f.ns, f.obj)

ReconcileSpec == VfsInit /\ [][ReconcileNext]_vars

\* --------------------------------------------------------------- KubeFuse
\* KubeVirtualFs::map_kube_file_to_attr: the fields that differ by kind.
map_kube_file_to_attr(node) ==
    CASE node.payload.tag \in {"Virtual", "Context", "ApiResourceDirectory",
                               "ResourceDirectory"} ->
             [ino |-> node.id, size |-> 0, kind |-> "Directory", perm |-> 493,
              uid |-> 1000]
      [] node.payload.tag = "ResourceFile" ->
             [ino |-> node.id, size |-> 10000, kind |-> "RegularFile",
              perm |-> 429, uid |-> 1000]
      [] OTHER ->
             [ino |-> node.id, size |-> 10000, kind |-> "RegularFile",
              perm |-> 429, uid |-> 10000]

\* The replies a callback can send; "none" when it panicked before replying.
ReplyError(code) == [kind |-> "error", err |-> code]

ReplyNone == [kind |-> "none"]

\* A name the kernel passes that is not valid UTF-8: to_str() returns None.
NonUtf8 == <<"\\xff">>

RECURSIVE find_by_name(_, _, _)
\* nodes.iter().map(...).find(|f| f.0 == name): the first child so named.
find_by_name(m, ids, name) ==
    IF ids = <<>> THEN NoneV
    ELSE IF get_file_name(m[Head(ids)].payload) = name
         THEN SomeV(map_kube_file_to_attr(m[Head(ids)]))
         ELSE find_by_name(m, Tail(ids), name)

\* get_children(&id).map(|nodes| ... .find(...)).flatten()
find_in(m, kids, name) ==
    IF ~kids.some THEN NoneV ELSE find_by_name(m, kids.val, name)

\* get_file_from_parent_by_name_two after its sync_leafs_for_inode.
find_after_sync(r, parent, name) ==
    [sync |-> r,
     file |-> IF r.status # "running" THEN NoneV
              ELSE find_in(r.map, get_children(r.map, parent), name)]

\* KubeVirtualFs::get_file_from_parent_by_name_two: reconcile the parent,
\* then search its children.
get_file_from_parent_by_name_two(m, c, cch, parent, name, ns_fetch, obj_fetch) ==
    find_after_sync(sync_leafs_for_inode(m, c, cch, parent, ns_fetch, obj_fetch),
                    parent, name)

\* KubeVirtualFs::get_file; NodeId::new(0) panics.
get_file(m, inode) ==
    IF inode = 0 THEN [panicked |-> TRUE, file |-> NoneV]
    ELSE [panicked |-> FALSE,
          file |-> IF get(m, inode).some
                   THEN SomeV(map_kube_file_to_attr(m[inode])) ELSE NoneV]

\* KubeVirtualFs::get_kube_manifest: Ok("") for a ResourceFile, Err otherwise.
get_kube_manifest(m, inode) ==
    IF inode = 0 THEN [panicked |-> TRUE, ok |-> FALSE, contents |-> <<>>]
    ELSE IF get(m, inode).some /\ m[inode].payload.tag = "ResourceFile"
         THEN [panicked |-> FALSE, ok |-> TRUE, contents |-> <<>>]
         ELSE [panicked |-> FALSE, ok |-> FALSE, contents |-> <<>>]

RECURSIVE files_of(_, _)
\* The (name, attr) pairs list_files_two collects.
files_of(m, ids) ==
    IF ids = <<>> THEN <<>>
    ELSE << [name |-> get_file_name(m[Head(ids)].payload),
             attr |-> map_kube_file_to_attr(m[Head(ids)])] >>
         \o files_of(m, Tail(ids))

\* get_children(&NodeId::new(inode)).map(|nodes| ... .collect())
files_in(m, kids) == IF ~kids.some THEN NoneV ELSE SomeV(files_of(m, kids.val))

\* list_files_two after its sync_leafs_for_inode.
files_after_sync(r, inode) ==
    [sync |-> r,
     files |-> IF r.status # "running" THEN NoneV
               ELSE files_in(r.map, get_children(r.map, inode))]

\* KubeVirtualFs::list_files_two: reconcile, then the children as files.
list_files_two(m, c, cch, inode, ns_fetch, obj_fetch) ==
    files_after_sync(sync_leafs_for_inode(m, c, cch, inode, ns_fetch, obj_fetch),
                     inode)

\* `offset as usize`: a negative i64 becomes a value above any length.
as_usize(offset, len) == IF offset < 0 THEN len + 1 ELSE offset

\* The offset readdir hands to reply.add for the entry at index i (0-based,
\* counted by enumerate() before skip()).
next_offset(offset, i) == offset + i + 1

RECURSIVE readdir_loop(_, _, _, _, _)
\* The for loop of readdir from 0-based index i: reply.add takes the entry
\* while the buffer has room, and returns true, taking nothing, once it is
\* full; the loop then breaks.
readdir_loop(files, i, offset, cap, taken) ==
    IF i >= Len(files) THEN taken
    ELSE IF Len(taken) >= cap THEN taken
    ELSE readdir_loop(files, i + 1, offset, cap,
                      Append(taken, [ino |-> files[i + 1].attr.ino,
                                     off |-> next_offset(offset, i),
                                     kind |-> files[i + 1].attr.kind,
                                     name |-> files[i + 1].name]))

\* The bytes reply.data is given: contents.as_bytes()[offset as usize..],
\* which panics when the start lies beyond the end.
slice_from(contents, offset) ==
    IF as_usize(offset, Len(contents)) > Len(contents)
    THEN [panicked |-> TRUE, data |-> <<>>]
    ELSE [panicked |-> FALSE,
          data |-> SubSeq(contents, offset + 1, Len(contents))]

\* KubeManifestFile::to_string: the object serialized without managed_fields.
\* The text is kept as the sequence of its tokens.
to_string(obj) ==
    <<"kind:", obj.kind, "name:", obj.name, "uid:", obj.uuid>>

\* ------------------------------------------------------------------ Spec
\* Reply buffers hold 1..MaxCap entries.
MaxCap == 2

Caps == 1..MaxCap

\* The inode numbers the callbacks are given: 0, every id of the arena, and
\* the id not issued yet (absent, like every id above it).
Inodes == {0, counter} \cup DOMAIN map

Names == { <<".">>, <<"a">>, <<"a", ".yml">>, <<"nope">>, NonUtf8 }

\* The offsets readdir is given: the start, one past it, and the number of
\* children the directory has.
Offsets(ino) ==
    {0, 1} \cup (IF ino \in DOMAIN map THEN {Len(map[ino].children_ids)} ELSE {})

\* The offsets read is given.
ReadOffsets == {-1, 0, 1}

\* The cache key the provider call for `inode` looks up, if it makes one.
KeyFor(inode) ==
    IF inode \notin DOMAIN map THEN {}
    ELSE CASE map[inode].payload.tag = "Context" -> {<<"namespaces">>}
           [] map[inode].payload.tag = "ApiResourceDirectory" ->
                  {<<map[inode].payload.namespace, "/",
                     to_lowercase(map[inode].payload.kind)>>}
           [] OTHER -> {}

\* The answers the API server may give a callback on `inode`: any listing or
\* an error when the client asks it, none to tell apart when the cache serves.
ServerAnswers(inode) ==
    IF KeyFor(inode) \subseteq DOMAIN cache
    THEN {[ns |-> FetchErr, obj |-> FetchErr]}
    ELSE AnswersFor(inode, TRUE)

\* KubeFuse::new: the file system over a new KubeVirtualFs and KubeClient.
Init == VfsInit

\* What a callback's reconcile leaves behind.
Synced(r, inode) ==
    /\ r.counter <= MaxIno + 1
    /\ map' = r.map
    /\ counter' = r.counter
    /\ cache' = r.cache
    /\ status' = r.status
    /\ issued' = issued \cup (counter..(r.counter - 1))
    /\ synced' = synced_after(r.map, inode, r.found /\ r.status = "running",
                              r.new_leaf)
    /\ UNCHANGED session

\* KubeFuse::lookup
Lookup(parent, name, ns_fetch, obj_fetch) ==
    /\ status = "running"
    /\ IF name = NonUtf8
       THEN /\ status' = "panicked"
            /\ last' = [op |-> "lookup", arg |-> parent, name |-> name,
                        provider_failed |-> FALSE, reply |-> ReplyNone]
            /\ UNCHANGED <<map, counter, cache, issued, synced, session>>
       ELSE \E g \in {get_file_from_parent_by_name_two(map, counter, cache, parent,
                                                          name, ns_fetch, obj_fetch)} :
                /\ Synced(g.sync, parent)
                /\ last' = [op |-> "lookup", arg |-> parent, name |-> name,
                            provider_failed |-> g.sync.provider_failed,
                            reply |-> IF g.sync.status # "running" THEN ReplyNone
                                      ELSE IF g.file.some
                                      THEN [kind |-> "entry", attr |-> g.file.val]
                                      ELSE ReplyError("ENOENT")]

\* getattr adding a node under the inode it is asked about.
GetattrAdding(ino) ==
    /\ status = "running"
    /\ counter <= MaxIno
    /\ \E g \in {get_file(map, ino)} :
       \E r \in {add(map, counter, Virtual("."), ino)} :
           /\ map' = r.map
           /\ counter' = r.counter
           /\ issued' = issued \cup {r.id}
           /\ status' = IF g.panicked THEN "panicked" ELSE "running"
           /\ last' = [op |-> "getattr", arg |-> ino,
                       reply |-> IF g.panicked THEN ReplyNone
                                 ELSE IF g.file.some
                                 THEN [kind |-> "attr", attr |-> g.file.val]
                                 ELSE ReplyError("ENOENT")]
    /\ UNCHANGED <<cache, synced, session>>

\* KubeFuse::getattr
Getattr(ino) ==
    /\ status = "running"
    /\ \E g \in {get_file(map, ino)} :
           /\ status' = IF g.panicked THEN "panicked" ELSE "running"
           /\ last' = [op |-> "getattr", arg |-> ino,
                       reply |-> IF g.panicked THEN ReplyNone
                                 ELSE IF g.file.some
                                 THEN [kind |-> "attr", attr |-> g.file.val]
                                 ELSE ReplyError("ENOENT")]
    /\ UNCHANGED <<map, counter, cache, issued, synced, session>>

\* KubeFuse::opendir
Opendir(ino) ==
    /\ status = "running"
    /\ \E g \in {get_file(map, ino)} :
           /\ status' = IF g.panicked THEN "panicked" ELSE "running"
           /\ last' = [op |-> "opendir", arg |-> ino,
                       reply |-> IF g.panicked THEN ReplyNone
                                 ELSE IF g.file.some
                                 THEN [kind |-> "opened", fh |-> 0]
                                 ELSE ReplyError("ENOENT")]
    /\ UNCHANGED <<map, counter, cache, issued, synced, session>>

\* KubeFuse::read
Read(ino, offset) ==
    /\ status = "running"
    /\ \E g \in {get_kube_manifest(map, ino)} :
       \E d \in {slice_from(g.contents, offset)} :
           /\ status' = IF g.panicked \/ (g.ok /\ d.panicked)
                        THEN "panicked" ELSE "running"
           /\ last' = [op |-> "read", arg |-> ino, offset |-> offset,
                       reply |-> IF g.panicked \/ (g.ok /\ d.panicked) THEN ReplyNone
                                 ELSE IF g.ok THEN [kind |-> "data", data |-> d.data]
                                 ELSE ReplyError("ENOENT")]
    /\ UNCHANGED <<map, counter, cache, issued, synced, session>>

\* The next-offset of the last entry a readdir reply carries.
LastOffset(entries) == entries[Len(entries)].off

RECURSIVE Inos(_)
Inos(entries) ==
    IF entries = <<>> THEN <<>> ELSE <<Head(entries).ino>> \o Inos(Tail(entries))

\* The inode numbers of the children list_files_two returned.
AllInos(files) ==
    IF files.some THEN [i \in 1..Len(files.val) |-> files.val[i].attr.ino] ELSE <<>>

\* Whether a readdir at `offset` goes on with the listing `last` is part of.
GoesOn(ino, offset, cap, all) ==
    /\ last.op = "readdir"
    /\ last.chain
    /\ last.arg = ino
    /\ last.cap = cap
    /\ last.reply.kind = "dir"
    /\ last.reply.entries # <<>>
    /\ offset = LastOffset(last.reply.entries)
    /\ last.snapshot = all

\* KubeFuse::readdir with a reply buffer of `cap` entries. `last` keeps the
\* listing in progress: `chain` says that the calls since offset 0 each went
\* on at the next-offset of the last entry of the call before and all saw the
\* children `snapshot`; `acc` is what they emitted together.
Readdir(ino, offset, cap, ns_fetch, obj_fetch) ==
    /\ status = "running"
    /\ \E g \in {list_files_two(map, counter, cache, ino, ns_fetch, obj_fetch)} :
       \E taken \in {readdir_loop(g.files.val, as_usize(offset, Len(g.files.val)),
                                  offset, cap, <<>>)} :
       \E all \in {AllInos(g.files)} :
       \E goes_on \in {GoesOn(ino, offset, cap, all)} :
           /\ Synced(g.sync, ino)
           /\ last' = [op |-> "readdir", arg |-> ino, offset |-> offset,
                       cap |-> cap,
                       provider_failed |-> g.sync.provider_failed,
                       chain |-> g.files.some /\ (offset = 0 \/ goes_on),
                       snapshot |-> all,
                       acc |-> IF ~g.files.some THEN <<>>
                               ELSE IF offset = 0 THEN Inos(taken)
                               ELSE IF goes_on THEN last.acc \o Inos(taken)
                               ELSE <<>>,
                       reply |-> IF g.sync.status # "running" THEN ReplyNone
                                 ELSE IF g.files.some
                                 THEN [kind |-> "dir", entries |-> taken]
                                 ELSE ReplyError("ENOENT")]

\* The kernel going on with a listing: the same directory and buffer, at the
\* next-offset of the last entry it was given.
ReaddirNext(ns_fetch, obj_fetch) ==
    /\ last.op = "readdir"
    /\ last.reply.kind = "dir"
    /\ last.reply.entries # <<>>
    /\ Readdir(last.arg, LastOffset(last.reply.entries), last.cap,
               ns_fetch, obj_fetch)

Next ==
    \/ \E parent \in Inodes, name \in Names :
           \E f \in ServerAnswers(parent) : Lookup(parent, name, f.ns, f.obj)
    \/ \E ino \in Inodes : Getattr(ino)
    \/ \E ino \in Inodes : Opendir(ino)
    \/ \E ino \in Inodes, offset \in ReadOffsets : Read(ino, offset)
    \/ \E ino \in Inodes, cap \in Caps :
           \E offset \in Offsets(ino), f \in ServerAnswers(ino) :
               Readdir(ino, offset, cap, f.ns, f.obj)
    \/ \E f \in ServerAnswers(IF last.op = "readdir" THEN last.arg ELSE 0) :
           ReaddirNext(f.ns, f.obj)

Spec == Init /\ [][Next]_vars

\* ------------------------------------------------------------ SessionSpec
\* The dispatch of callbacks: requests of several requesters are pending at
\* once, and a lookup or readdir is taken in three steps, the diff of
\* sync_leafs_for_inode, its two loops, and the read of the children.
MaxSessionIno == 9

\* The requests that reconcile a directory.
Requests == [op : {"lookup", "readdir"}, arg : Inodes, name : {<<".">>}]

\* What the first half of sync_leafs_for_inode settles: how it went on, the
\* cache after the provider call, and the two lists the loops will run over.
SyncPlan(st, cch, found, items, add_nodes, remove_inodes) ==
    [status |-> st, cache |-> cch, found |-> found, items |-> items,
     add_nodes |-> add_nodes, remove_inodes |-> remove_inodes]

\* add_nodes and remove_inodes from the desired and the current children.
plan_diff(m, leafs, old_ids) ==
    IF leafs.panicked
    THEN SyncPlan("panicked", leafs.cache, TRUE, <<>>, <<>>, <<>>)
    ELSE SyncPlan("running", leafs.cache, TRUE, leafs.items,
                  add_nodes_of(leafs.items, old_ids, m),
                  remove_inodes_of(old_ids, leafs.items, m))

\* sync_leafs_for_inode up to the two lists.
sync_plan(m, cch, inode, ns_fetch, obj_fetch) ==
    IF inode = 0 THEN SyncPlan("panicked", cch, FALSE, <<>>, <<>>, <<>>)
    ELSE IF ~get(m, inode).some
    THEN SyncPlan("running", cch, FALSE, <<>>, <<>>, <<>>)
    ELSE plan_diff(m, get_leafs_for_node(m[inode], cch, ns_fetch, obj_fetch),
                   old_leaf(get_children(m, inode)))

\* The two loops of sync_leafs_for_inode run over the lists of a plan.
sync_run(m, c, inode, plan) ==
    IF ~plan.found
    THEN SyncResult(m, c, plan.cache, FALSE, <<>>, "running", FALSE)
    ELSE sync_apply(c, inode, Leafs(plan.items, plan.cache),
                    delete_all(m, plan.remove_inodes), plan.add_nodes)

\* Every callback borrows the filesystem as `&mut self`, and the mount runs
\* them from one loop: a callback is entered only when none is in progress.
mut_self_free_always(sess) == TRUE

mut_self_free(sess) == \A t \in Slots : sess[t].pc \in {"none", "queued"}

\* A requester's request reaches the mount.
SessionSubmit(s, req) ==
    /\ status = "running"
    /\ session[s].pc = "none"
    /\ session' = [session EXCEPT ![s] = [pc |-> "queued", req |-> req]]
    /\ UNCHANGED <<map, counter, status, cache, last, issued, synced>>

\* The callback is entered and sync_leafs_for_inode computes its two lists.
SessionEnter(s, ns_fetch, obj_fetch) ==
    /\ status = "running"
    /\ session[s].pc = "queued"
    /\ mut_self_free(session)
    /\ \E plan \in {sync_plan(map, cache, session[s].req.arg, ns_fetch, obj_fetch)} :
           /\ status' = plan.status
           /\ cache' = plan.cache
           /\ session' = [session EXCEPT ![s] = [pc |-> "planned", req |-> @.req,
                                                 plan |-> plan]]
    /\ UNCHANGED <<map, counter, last, issued, synced>>

\* The children ids get_children yields for a directory, <<>> when absent.
children_now(m, inode) ==
    IF inode \in DOMAIN m THEN old_leaf(get_children(m, inode)) ELSE <<>>

\* The delete loop and the add loop of sync_leafs_for_inode.
SessionApply(s) ==
    /\ status = "running"
    /\ session[s].pc = "planned"
    /\ \E r \in {sync_run(map, counter, session[s].req.arg, session[s].plan)} :
           /\ r.counter <= MaxSessionIno + 1
           /\ map' = r.map
           /\ counter' = r.counter
           /\ status' = r.status
           /\ issued' = issued \cup (counter..(r.counter - 1))
           /\ session' = [session EXCEPT ![s] =
                              [pc |-> "synced", req |-> @.req,
                               children |-> children_now(r.map, @.req.arg)]]
    /\ UNCHANGED <<cache, last, synced>>

\* The callback reads the children of the directory, replies and returns.
SessionReply(s) ==
    /\ status = "running"
    /\ session[s].pc = "synced"
    /\ last' = [op |-> "session_reply",
                seen_own_sync |-> children_now(map, session[s].req.arg)
                                  = session[s].children]
    /\ session' = [session EXCEPT ![s] = Idle]
    /\ UNCHANGED <<map, counter, status, cache, issued, synced>>

SessionNext ==
    \/ \E s \in Slots, req \in Requests : SessionSubmit(s, req)
    \/ \E s \in Slots :
           \E f \in ServerAnswers(IF session[s].pc = "queued"
                                  THEN session[s].req.arg ELSE 0) :
               SessionEnter(s, f.ns, f.obj)
    \/ \E s \in Slots : SessionApply(s)
    \/ \E s \in Slots : SessionReply(s)

SessionSpec == Init /\ [][SessionNext]_vars

\* ------------------------------------------------------- arena properties
RECURSIVE Closure(_, _)
\* The ids reachable from the set `seen` along children_ids links.
Closure(m, seen) ==
    LET next == seen \cup UNION {Range(m[n].children_ids) : n \in seen \cap DOMAIN m}
    IN  IF next = seen THEN seen ELSE Closure(m, next)

\* x and all its descendants.
Subtree(m, x) == Closure(m, {x})

\* C5: every NodeId add returns is non-zero and differs from every NodeId an
\* earlier add returned, deleted or not, and get on it right after the add
\* yields the node with the inserted payload.
C5_IdsUniqueNonZeroRoundTrip ==
    [][last'.op = "add" =>
          /\ last'.arg # 0
          /\ last'.arg \notin issued
          /\ get(map', last'.arg).some
          /\ get(map', last'.arg).val.payload = last'.payload
          /\ get(map', last'.arg).val.id = last'.arg]_vars

\* An add has just returned while an id handed out earlier is already deleted.
C5_Witness ==
    /\ last.op = "add"
    /\ \E i \in issued : i < last.arg /\ i \notin DOMAIN map

\* C6: delete_node(x) on an existing x returns exactly the ids of x's subtree,
\* each once, removes exactly those from the arena, takes x out of its
\* parent's children and leaves every other node as it was; on an absent id
\* it returns None and changes nothing.
C6_CascadingDeletion ==
    [][last'.op = "delete_node" =>
          LET x == last'.arg
              sub == Subtree(map, x)
              p == last'.parent
          IN  IF x \in DOMAIN map
              THEN /\ status' = "running"
                   /\ last'.ret.some
                   /\ Range(last'.ret.val) = sub
                   /\ Len(last'.ret.val) = Cardinality(sub)
                   /\ DOMAIN map' = DOMAIN map \ sub
                   /\ \A y \in DOMAIN map' :
                          IF y = p
                          THEN /\ x \notin Range(map'[y].children_ids)
                               /\ map'[y].children_ids =
                                      Filter(map[y].children_ids,
                                             Range(map[y].children_ids) \ {x})
                               /\ map'[y].payload = map[y].payload
                               /\ map'[y].parent_id = map[y].parent_id
                          ELSE map'[y] = map[y]
              ELSE ~last'.ret.some /\ map' = map /\ status' = "running"]_vars

\* C7: every parent_id that is present names a node of the arena.
C7_ParentExists ==
    \A n \in DOMAIN map :
        map[n].parent_id # NoId => map[n].parent_id \in DOMAIN map

\* C8: every id of a children_ids sequence names a node of the arena whose
\* parent_id is the node holding the sequence, and occurs in it once.
C8_ChildLinkage ==
    \A n \in DOMAIN map :
        /\ \A c \in Range(map[n].children_ids) :
               c \in DOMAIN map /\ map[c].parent_id = n
        /\ NoDup(map[n].children_ids)

\* A node with a child has just been deleted from under a parent that keeps
\* another child.
C8_Witness ==
    /\ last.op = "delete_node"
    /\ last.ret.some
    /\ Len(last.ret.val) >= 2
    /\ last.parent \in DOMAIN map
    /\ map[last.parent].children_ids # <<>>

\* ------------------------------------------------- reconcile properties
\* Semantic equality as the data model states it: the same variant, and the
\* same uid for the resource-backed kinds, the same group, version and kind for
\* an ApiResourceDirectory, the same literal name for Virtual and Context.
SemEq(a, b) ==
    /\ a.tag = b.tag
    /\ a.tag \in {"ResourceDirectory", "ResourceFile", "LogFile"} => a.uuid = b.uuid
    /\ a.tag = "ApiResourceDirectory" =>
           a.group = b.group /\ a.version = b.version /\ a.kind = b.kind
    /\ a.tag \in {"Virtual", "Context"} => a.name = b.name

\* C2: a reconcile of a directory whose desired children are those of its
\* previous reconcile deletes nothing and adds nothing: the arena's map (so the
\* directory's children, ids and order) and the id counter are unchanged.
C2_ReconcileIdempotent ==
    [][(last'.op = "sync" /\ last'.repeated) =>
          (map' = map /\ counter' = counter)]_vars

\* A directory holding provider-derived children has been reconciled again
\* against the listing of its previous reconcile.
C2_Witness ==
    /\ last.op = "sync"
    /\ last.repeated
    /\ last.arg \in DOMAIN map
    /\ \E c \in Range(map[last.arg].children_ids) :
           map[c].payload.tag \in {"ResourceDirectory", "ResourceFile"}

\* C3: a reconcile of directory d against the desired children removes from
\* the arena exactly the subtrees of d's children that no desired entry
\* equals, adds exactly one node, a childless child of d, for each desired
\* entry that no child equals, and leaves the other children as they were, ids
\* and order; afterwards every desired entry has an equal child and every
\* child an equal desired entry.
C3_ReconcileConverges ==
    [][(/\ last'.op = "sync"
        /\ last'.found
        /\ status' = "running"
        /\ last'.arg \in DOMAIN synced') =>
          LET d == last'.arg
              desired == synced'[d]
              kids == map[d].children_ids
              stale == {c \in Range(kids) :
                           \A i \in 1..Len(desired) : ~SemEq(map[c].payload, desired[i])}
              missing == {i \in 1..Len(desired) :
                             \A c \in Range(kids) : ~SemEq(desired[i], map[c].payload)}
              gone == UNION {Subtree(map, c) : c \in stale}
              fresh == DOMAIN map' \ DOMAIN map
              kids2 == map'[d].children_ids
              kept == Filter(kids, Range(kids) \ stale)
          IN  /\ DOMAIN map \ DOMAIN map' = gone
              /\ Cardinality(fresh) = Cardinality(missing)
              /\ \A n \in fresh :
                     /\ map'[n].parent_id = d
                     /\ map'[n].children_ids = <<>>
                     /\ \E i \in missing : map'[n].payload = desired[i]
              /\ \A i \in missing : \E n \in fresh : map'[n].payload = desired[i]
              /\ Len(kids2) = Len(kept) + Cardinality(fresh)
              /\ SubSeq(kids2, 1, Len(kept)) = kept
              /\ Range(kids2) = Range(kept) \cup fresh
              /\ \A c \in Range(kept) : map'[c] = map[c]
              /\ \A i \in 1..Len(desired) :
                     \E c \in Range(kids2) : SemEq(desired[i], map'[c].payload)
              /\ \A c \in Range(kids2) :
                     \E i \in 1..Len(desired) : SemEq(map'[c].payload, desired[i])]_vars

\* A reconcile has just dropped a child together with its descendants, added
\* a node, and kept a provider-derived child under its old id.
C3_Witness ==
    /\ last.op = "sync"
    /\ last.found
    /\ Cardinality(last.removed) > Cardinality(last.dropped)
    /\ last.dropped # {}
    /\ last.added # {}
    /\ \E c \in Range(map[last.arg].children_ids) \ last.added :
           map[c].payload.tag \in {"ResourceDirectory", "ResourceFile"}

\* C1: a listing that starts at offset 0, goes on each time at the next-offset
\* of the last entry emitted, with the same buffer capacity and the same
\* children, has emitted every child exactly once, in children order, when a
\* call emits zero entries.
C1_PaginationComplete ==
    (/\ last.op = "readdir"
     /\ last.chain
     /\ last.reply.kind = "dir"
     /\ last.reply.entries = <<>>)
    => last.acc = last.snapshot

\* C4: a lookup or readdir whose provider call fails leaves the arena and the
\* id counter as they were, keeps the process running and replies EIO.
C4_ProviderFailureAtomic ==
    [][(last'.op \in {"lookup", "readdir"} /\ last'.provider_failed)
       => /\ map' = map
          /\ counter' = counter
          /\ status' = "running"
          /\ last'.reply = ReplyError("EIO")]_vars

\* C9: whatever arguments a callback was given, it has sent a reply (a success
\* or an error code) and the process is still running.
C9_EveryFailureIsAReply ==
    last.op \in {"lookup", "getattr", "opendir", "readdir", "read"}
    => /\ status = "running"
       /\ last.reply.kind # "none"

\* C10: read of a resource file at an offset k within 0..L, L the length of
\* the object's serialized content, replies with the content from k to L.
C10_ReadByteRange ==
    (/\ last.op = "read"
     /\ last.arg \in DOMAIN map
     /\ map[last.arg].payload.tag = "ResourceFile"
     /\ last.offset \in 0..Len(to_string(map[last.arg].payload)))
    => last.reply =
           [kind |-> "data",
            data |-> SubSeq(to_string(map[last.arg].payload), last.offset + 1,
                            Len(to_string(map[last.arg].payload)))]

\* C11: read on an inode that names no node of the arena, or a node that is
\* not a ResourceFile, replies ENOENT and never data.
C11_ReadOnNonFile ==
    (/\ last.op = "read"
     /\ \/ last.arg \notin DOMAIN map
        \/ map[last.arg].payload.tag # "ResourceFile")
    => last.reply = ReplyError("ENOENT")

\* The id of the first node, in the order of `ids`, whose display name is
\* `name`; NoId when there is none.
FirstNamed(ids, name) ==
    LET named == {i \in 1..Len(ids) : get_file_name(map[ids[i]].payload) = name}
    IN  IF named = {} THEN NoId
        ELSE ids[CHOOSE i \in named : \A j \in named : i <= j]

\* C12: lookup(parent, name) replies with the id and attributes of the first
\* child of parent, in children order, whose display name is name, and with
\* ENOENT when parent has no such child or is not in the arena.
C12_LookupFirstNamedChild ==
    last.op = "lookup"
    => IF last.arg \in DOMAIN map
          /\ FirstNamed(map[last.arg].children_ids, last.name) # NoId
       THEN /\ last.reply.kind = "entry"
            /\ last.reply.attr.ino =
                   FirstNamed(map[last.arg].children_ids, last.name)
            /\ last.reply.attr = map_kube_file_to_attr(map[last.reply.attr.ino])
            /\ map[last.reply.attr.ino].parent_id = last.arg
       ELSE last.reply = ReplyError("ENOENT")

\* C13: getattr, opendir and readdir on an inode number that names no node of
\* the arena reply ENOENT; on one that names a node, getattr replies with
\* attributes carrying that inode number and opendir succeeds.
C13_NotFoundByInode ==
    /\ (last.op \in {"getattr", "opendir", "readdir"} /\ last.arg \notin DOMAIN map)
       => last.reply = ReplyError("ENOENT")
    /\ (last.op = "getattr" /\ last.arg \in DOMAIN map)
       => (last.reply.kind = "attr" /\ last.reply.attr.ino = last.arg)
    /\ (last.op = "opendir" /\ last.arg \in DOMAIN map)
       => last.reply.kind = "opened"

\* The requesters whose callback is between its entry and its return.
InProgress == {s \in Slots : session[s].pc \in {"planned", "synced"}}

\* No directory holds a child id twice, or two children with equal payloads,
\* and every child is a node whose parent_id is the directory.
NoDuplicateChildren ==
    \A d \in DOMAIN map :
        /\ NoDup(map[d].children_ids)
        /\ \A i, j \in 1..Len(map[d].children_ids) :
               /\ map[d].children_ids[i] \in DOMAIN map
               /\ map[map[d].children_ids[i]].parent_id = d
               /\ i # j => ~eq(map[map[d].children_ids[i]].payload,
                               map[map[d].children_ids[j]].payload)

\* C14: callbacks never interleave on the tree: at most one is in progress,
\* the arena changes under a callback in progress only by that callback's own
\* step, a callback reads the children its own reconcile left, and no
\* directory ever holds duplicate children.
C14_SerializedAccess ==
    /\ [](/\ Cardinality(InProgress) <= 1
          /\ NoDuplicateChildren
          /\ last.op = "session_reply" => last.seen_own_sync)
    /\ [][\A s \in Slots :
              (s \in InProgress /\ session'[s] = session[s])
              => (map' = map /\ counter' = counter)]_vars

\* Two requests for the same directory are pending while the callback of one
\* is between its diff, which found children to add, and its loops.
C14_Witness ==
    \E s, t \in Slots :
        /\ s # t
        /\ session[s].pc = "planned"
        /\ session[s].plan.add_nodes # <<>>
        /\ session[t].pc = "queued"
        /\ session[t].req.arg = session[s].req.arg

RECURSIVE PreOrder(_, _), PreOrderAll(_, _)
\* The pre-order sequence of x's subtree: x, then the subtrees of its
\* children from left to right.
PreOrder(m, x) == <<x>> \o PreOrderAll(m, m[x].children_ids)

PreOrderAll(m, ids) ==
    IF ids = <<>> THEN <<>>
    ELSE PreOrder(m, Head(ids)) \o PreOrderAll(m, Tail(ids))

\* C15: tree_walk_dfs(x) returns, for every existing node x, the pre-order
\* sequence of x's subtree with children in insertion order, and None for an
\* absent x.
C15_DfsPreOrder ==
    \A x \in ArenaIds :
        IF x \in DOMAIN map
        THEN /\ ~tree_walk_dfs(map, x).loops
             /\ tree_walk_dfs(map, x) = WalkSome(PreOrder(map, x))
        ELSE tree_walk_dfs(map, x) = WalkNone

\* The children at 0-based indices from..(to - 1) as readdir entries, the
\* next-offset of the child at index i being i + 1.
EntriesByIndex(ids, from, to) ==
    [k \in 1..(to - from) |->
        [ino |-> ids[from + k], off |-> from + k,
         kind |-> map_kube_file_to_attr(map[ids[from + k]]).kind,
         name |-> get_file_name(map[ids[from + k]].payload)]]

\* C16: a readdir(ino, offset) that returns, on an existing directory, emits
\* the children at indices offset, offset + 1, ... until the buffer is full,
\* each child at index i with next-offset i + 1, and nothing when offset is
\* the number of children.
C16_ReaddirSingleCall ==
    (/\ last.op = "readdir"
     /\ status = "running"
     /\ last.arg \in DOMAIN map
     /\ last.offset \in 0..Len(map[last.arg].children_ids))
    => /\ last.reply.kind = "dir"
       /\ last.reply.entries =
              EntriesByIndex(map[last.arg].children_ids, last.offset,
                             IF last.offset + last.cap
                                    < Len(map[last.arg].children_ids)
                             THEN last.offset + last.cap
                             ELSE Len(map[last.arg].children_ids))

\* The payload kinds get_leafs_for_node gives no children.
LeafKinds == {"ResourceFile", "LogFile", "ClusterInfoFile", "Virtual"}

\* C17: a reconcile of d removes only nodes of the subtrees of children of d
\* that d loses, creates only childless children of d, and leaves every other
\* node, and the payload and parent of d, as they were; on an absent id or a
\* node of a leaf kind it changes nothing.
C17_ReconcileLocalLazy ==
    [][last'.op = "sync" =>
          LET d == last'.arg
              lost == IF d \in DOMAIN map /\ d \in DOMAIN map'
                      THEN Range(map[d].children_ids) \ Range(map'[d].children_ids)
                      ELSE {}
          IN  /\ DOMAIN map \ DOMAIN map' = UNION {Subtree(map, c) : c \in lost}
              /\ \A n \in DOMAIN map' \ DOMAIN map :
                     /\ map'[n].parent_id = d
                     /\ map'[n].children_ids = <<>>
                     /\ n \in Range(map'[d].children_ids)
              /\ \A n \in DOMAIN map \cap DOMAIN map' :
                     IF n = d
                     THEN /\ map'[n].payload = map[n].payload
                          /\ map'[n].parent_id = map[n].parent_id
                          /\ map'[n].id = map[n].id
                     ELSE map'[n] = map[n]
              /\ d \in DOMAIN map => d \in DOMAIN map'
              /\ (d \notin DOMAIN map \/ map[d].payload.tag \in LeafKinds)
                 => (map' = map /\ counter' = counter)]_vars

\* A reconcile has removed a child together with descendants of it, has added
\* children and has retained a directory among the children.
C17_Witness ==
    /\ last.op = "sync"
    /\ last.removed \ last.dropped # {}
    /\ last.added # {}
    /\ \E n \in Range(map[last.arg].children_ids) \ last.added :
           map[n].payload.tag = "ResourceDirectory"

\* C18: a reconcile of d leaves every child of d that is semantically equal to
\* a desired entry where it is, with its id, its stored payload and its whole
\* subtree unchanged, whatever other fields of the desired entry differ.
C18_IdentityBySemanticEquality ==
    [][(/\ last'.op = "sync"
        /\ last'.found
        /\ status' = "running"
        /\ last'.arg \in DOMAIN synced') =>
          \A c \in Range(map[last'.arg].children_ids) :
              (\E i \in 1..Len(synced'[last'.arg]) :
                   SemEq(map[c].payload, synced'[last'.arg][i]))
              => /\ c \in Range(map'[last'.arg].children_ids)
                 /\ \A n \in Subtree(map, c) :
                        n \in DOMAIN map' /\ map'[n] = map[n]]_vars

\* A reconcile has kept a child that has children of its own although the
\* desired entry semantically equal to it differs from its stored payload.
C18_Witness ==
    /\ last.op = "sync"
    /\ last.found
    /\ last.arg \in DOMAIN synced
    /\ \E c \in Range(map[last.arg].children_ids) \ last.added :
           /\ map[c].children_ids # <<>>
           /\ \E i \in 1..Len(synced[last.arg]) :
                  /\ SemEq(map[c].payload, synced[last.arg][i])
                  /\ map[c].payload # synced[last.arg][i]

\* C19: add with a parent_id that names no node of the arena returns a fresh
\* id of a node that get returns, that records no parent, that is in no
\* node's children sequence, and that no walk or get_children of another
\* node yields.
C19_AddDanglingParent ==
    [][(/\ last'.op = "add"
        /\ last'.parent # NoId
        /\ last'.parent \notin DOMAIN map) =>
          /\ status' = "running"
          /\ last'.arg \notin issued
          /\ get(map', last'.arg).some
          /\ map'[last'.arg].parent_id = NoId
          /\ \A n \in DOMAIN map' :
                 /\ last'.arg \notin Range(map'[n].children_ids)
                 /\ n # last'.arg =>
                        /\ last'.arg \notin Range(tree_walk_dfs(map', n).val)
                        /\ last'.arg \notin Range(get_children(map', n).val)]_vars

\* C20: getattr, opendir and read leave the arena as it is, whatever their
\* arguments: the map (node set, payloads, parent and children links) and
\* the id counter change only in a step of lookup or readdir.
C20_OnlyReconcileMutates ==
    [][/\ last'.op \in {"getattr", "opendir", "read"}
          => (map' = map /\ counter' = counter)
       /\ (map' # map \/ counter' # counter)
          => last'.op \in {"lookup", "readdir"}]_vars

\* getattr, opendir or read has been answered for a node of an arena that
\* reconciles have filled.
C20_Witness ==
    /\ last.op \in {"getattr", "opendir", "read"}
    /\ last.reply.kind \in {"attr", "opened", "data"}
    /\ last.arg \in DOMAIN map
    /\ map[last.arg].parent_id # NoId
    /\ Cardinality(DOMAIN map) > 4

\* C21: an id that was issued and no longer names a node never names one
\* again; every node a step creates gets an id above every id issued before;
\* and the node under an id keeps the entity (the payload) it was created for.
C21_StaleInodeNeverBack ==
    [][/\ \A i \in issued : i \notin DOMAIN map => i \notin DOMAIN map'
       /\ \A n \in DOMAIN map' \ DOMAIN map : \A i \in issued : n > i
       /\ \A n \in DOMAIN map \cap DOMAIN map' :
              map'[n].payload = map[n].payload]_vars

\* Namespace u1, listed alone at first under ids 5 and 6, has gone from the
\* listing and has come back: its directory is now node 7 and id 5 is stale.
C21_Witness ==
    /\ last.op = "sync"
    /\ 5 \in issued
    /\ 5 \notin DOMAIN map
    /\ 7 \in DOMAIN map
    /\ map[7].payload.tag = "ResourceDirectory"
    /\ map[7].payload.uuid = "u1"
    /\ map[7].parent_id = 1

\* C22: node 1 is always in the arena, carries the Context payload and has no
\* parent, and no other node carries a Context payload.
C22_RootPersists ==
    /\ 1 \in DOMAIN map
    /\ map[1].payload = Context("default")
    /\ map[1].parent_id = NoId
    /\ \A n \in DOMAIN map : map[n].payload.tag = "Context" => n = 1

\* The root has been reconciled against a listing that dropped children of
\* it together with their descendants.
C22_Witness ==
    /\ last.op = "sync"
    /\ last.arg = 1
    /\ last.dropped # {}
    /\ last.removed \ last.dropped # {}

\* C23: every id of a node's children_ids is greater than the node's id and
\* occurs in no other children sequence, and tree_walk_dfs returns on every
\* existing node with a result that holds no id twice.
C23_AcyclicWalksTerminate ==
    \A n \in DOMAIN map :
        /\ \A c \in Range(map[n].children_ids) :
               /\ c > n
               /\ \A k \in DOMAIN map \ {n} : c \notin Range(map[k].children_ids)
        /\ ~tree_walk_dfs(map, n).loops
        /\ tree_walk_dfs(map, n).some
        /\ NoDup(tree_walk_dfs(map, n).val)

\* C24: every node of the arena is reachable from node 1 along children
\* links: each node but the root has a parent that is in the arena and lists
\* it as a child.
C24_NoOrphans ==
    /\ DOMAIN map = Subtree(map, 1)
    /\ \A n \in DOMAIN map \ {1} :
           /\ map[n].parent_id \in DOMAIN map
           /\ n \in Range(map[map[n].parent_id].children_ids)

\* A reconcile has removed a child together with its descendants while nodes
\* two levels below the root remain.
C24_Witness ==
    /\ last.op = "sync"
    /\ last.removed \ last.dropped # {}
    /\ \E n \in DOMAIN map :
           map[n].parent_id \notin {NoId, 1}

\* No two entries of the sequence of payloads are semantically equal.
Distinct(payloads) ==
    \A i, j \in 1..Len(payloads) : i # j => ~SemEq(payloads[i], payloads[j])

\* C25: as long as no desired set holds two semantically equal entries, no
\* directory has two children with semantically equal payloads.
C25_NoDuplicateEntities ==
    (\A d \in DOMAIN synced : Distinct(synced[d]))
    => \A d \in DOMAIN map :
           /\ NoDup(map[d].children_ids)
           /\ Distinct([i \in 1..Len(map[d].children_ids) |->
                           map[map[d].children_ids[i]].payload])

\* A directory that already held provider-derived children has been
\* reconciled against a changed listing: it lost a child, gained one and kept
\* one whose desired entry has another name.
C25_Witness ==
    /\ last.op = "sync"
    /\ last.arg \in DOMAIN synced
    /\ last.dropped # {}
    /\ last.added # {}
    /\ \E c \in Range(map[last.arg].children_ids) \ last.added :
       \E i \in 1..Len(synced[last.arg]) :
           /\ SemEq(map[c].payload, synced[last.arg][i])
           /\ map[c].payload # synced[last.arg][i]

====
